---- MODULE Spec2Model ----
(***************************************************************************)
(* Session and transport multiplexing of the streaming HTTP transport      *)
(* (src/src/transport/streamable.ts, startStreamableMcpServer).            *)
(*                                                                         *)
(* One event loop runs the request handler.  A handler runs without        *)
(* interruption from one await to the next; every await of the source is   *)
(* a position (pc) of a suspended request, and the continuation after it   *)
(* is a separate action.  The MCP SDK objects (the McpServer passed in,    *)
(* the StreamableHTTPServerTransport created per initialize) are           *)
(* collaborators: their calls may resolve or reject, and a transport's     *)
(* close callback may be invoked at any moment.                            *)
(***************************************************************************)
EXTENDS Integers, Sequences, FiniteSets, Bags, TLC

\* Bounds of the model.
MaxTransports == 2      \* transports (initialize requests) created in a run
MaxInflight == 1        \* requests suspended at an await at the same time
MaxCalls == 2           \* invocations of one registered handler in a run
MaxEvents == 2          \* events appended to one stream in a run
MaxServers == 3         \* base HTTP servers created in a run
MaxSignals == 1         \* signals delivered to the process in a run
MaxRuns == 3            \* calls of run() on the instance
MaxStops == 2           \* stop() calls awaiting the shutdown at the same time
MaxInstances == 3       \* FastMCP instances constructed in the process

\* req.headers["mcp-session-id"] is undefined (or empty): no session id.
NoHeader == 0
\* The one McpServer object handed to startStreamableMcpServer.
McpServer == "server"

SessionIds == 1..MaxTransports
TransportIds == 1..MaxTransports
Headers == {NoHeader} \cup SessionIds
Bodies == {"initialize", "tools/call"}

VARIABLES
  activeTransports,  \* session id -> [server, transport, isClosing]
  transports,        \* sequence of created transports: [sessionId]
  serverTransport,   \* transport the McpServer is connected to, 0 when closed
  onclosePending,    \* transport -> its onclose handler is awaiting server.close()
  inflight,          \* bag of the requests suspended at an await
  last,              \* what the latest step did with a request, NoRequest when nothing
  issued,            \* history: session ids generated, in order
  teardowns,         \* history: session id -> server.close() calls of its DELETE/onclose teardown
  removed,           \* history: session id -> deletions of its table entry
  marked,            \* history: session ids whose isClosing was ever set
  swept,             \* what the latest run of cleanup did: session id -> calls made
  registry,          \* FastMCP.registry: [tools, resources, prompts], each name -> entry
  invoked,           \* history: handler -> times it was invoked
  reply,             \* what the latest request handler of the server answered
  registration,      \* what the latest registration method was called with
  eventStore,        \* the event store: stream id -> sequence of [streamId, eventId, message]
  sse,               \* the latest GET stream: what it was opened with and was sent
  signalHandlersSetup,    \* httpServer.ts: the module's flag
  signalCleanupHandlers,  \* httpServer.ts: the removeHandlers closures, by server
  listeners,         \* process: signal -> servers whose cleanup closure listens
  httpServers,       \* sequence of the base HTTP servers created: their state
  closeCallbacks,    \* servers whose close callback (process.exit) is pending
  delivered,         \* what the handlers did at the latest signal, in order
  exited,            \* process.exit was called
  transportOptions,  \* FastMCP: the transport type of the instance's options, "" before new
  isRunning,         \* FastMCP.isRunning
  shutdownPromise,   \* FastMCP.shutdownPromise: undefined, or how far it got
  pendingRuns,       \* the run() calls at their await: the transport each started
  waiters,           \* the stop() calls awaiting the shutdown promise
  started,           \* run() calls, connects, HTTP listeners opened and listening, signal handlers
  closes,            \* history: server.close() calls of performShutdown
  sequential,        \* history: every run() and stop() was called with none in flight
  completed,         \* what the latest ended call of run() or stop() ended with
  instances,         \* the FastMCP instances constructed: the tools map of each
  globalFastMCPInstance,  \* decorators/index.ts: the module's instance, 0 for null
  decorated          \* what the latest X.tool(options)(fn) was called with

sessionVars ==
  <<activeTransports, transports, serverTransport, onclosePending, inflight,
    last, issued, teardowns, removed, marked, swept>>
dispatcherVars == <<registry, invoked, reply, registration>>

storeVars == <<eventStore, sse>>

httpVars ==
  <<signalHandlersSetup, signalCleanupHandlers, listeners, httpServers,
    closeCallbacks, delivered, exited>>

lifecycleVars ==
  <<transportOptions, isRunning, shutdownPromise, pendingRuns, waiters, started,
    closes, sequential, completed>>

instanceVars == <<instances, globalFastMCPInstance, decorated>>

nonSessionVars ==
  <<dispatcherVars, storeVars, httpVars, lifecycleVars, instanceVars>>
nonDispatcherVars ==
  <<sessionVars, storeVars, httpVars, lifecycleVars, instanceVars>>
nonStoreVars ==
  <<sessionVars, dispatcherVars, httpVars, lifecycleVars, instanceVars>>
nonHttpVars ==
  <<sessionVars, dispatcherVars, storeVars, lifecycleVars, instanceVars>>
nonLifecycleVars ==
  <<sessionVars, dispatcherVars, storeVars, httpVars, instanceVars>>
nonInstanceVars ==
  <<sessionVars, dispatcherVars, storeVars, httpVars, lifecycleVars>>

vars ==
  <<sessionVars, dispatcherVars, storeVars, httpVars, lifecycleVars,
    instanceVars>>

----------------------------------------------------------------------------
\* Responses written to res.

NoResponse == [status |-> 0, kind |-> "none", code |-> 0, message |-> ""]
\* The request was handed to transport.handleRequest, which is still running.
Forwarded == [status |-> 0, kind |-> "forwarded", code |-> 0, message |-> ""]
\* transport.handleRequest resolved: the SDK transport wrote the response.
TransportResponse == [status |-> 0, kind |-> "transport", code |-> 0, message |-> ""]
BadRequest ==
  [status |-> 400, kind |-> "jsonrpc", code |-> -32000,
   message |-> "Bad Request: No valid session ID provided"]
InternalError ==
  [status |-> 500, kind |-> "jsonrpc", code |-> -32603,
   message |-> "Internal Server Error"]
NoSessionId == [status |-> 400, kind |-> "text", code |-> 0, message |-> "No sessionId"]
NoActiveTransport ==
  [status |-> 400, kind |-> "text", code |-> 0, message |-> "No active transport"]
InvalidSessionId ==
  [status |-> 400, kind |-> "text", code |-> 0, message |-> "Invalid or missing sessionId"]
DeleteError ==
  [status |-> 500, kind |-> "text", code |-> 0, message |-> "Error handling delete request"]
BaseServerError ==
  [status |-> 500, kind |-> "json", code |-> 0, message |-> "Internal server error"]

----------------------------------------------------------------------------
\* Requests.

\* A suspended request: its method, its mcp-session-id header, its body, the
\* await it is suspended at, and the transport it holds.
Request(method, sessionId, body, pc, transport) ==
  [method |-> method, sessionId |-> sessionId, body |-> body, pc |-> pc,
   transport |-> transport]

\* What a handler finds in the table for the header it was given.
Saw(sessionId, table) ==
  IF sessionId = NoHeader THEN "noheader"
  ELSE IF sessionId \notin DOMAIN table THEN "absent"
  ELSE IF table[sessionId].isClosing THEN "closing"
  ELSE "active"

\* The outcome of one step for one request: the stage of the handler that
\* ran ("route": from its start or from getBody to its first await or return;
\* otherwise the await that returned), what it found in the table for the
\* request's session id (saw, at stage "route"), and what went to the client.
Outcome(req, stage, saw, resp) ==
  [method |-> req.method, sessionId |-> req.sessionId, body |-> req.body,
   transport |-> req.transport, stage |-> stage, saw |-> saw, resp |-> resp]

Routed(req, resp) ==
  Outcome(req, "route", Saw(req.sessionId, activeTransports), resp)

Returned(req, stage, resp) == Outcome(req, stage, "", resp)

\* cleanup has not run in the latest step.
NoSweep == << >>

NoRequest ==
  [method |-> "", sessionId |-> NoHeader, body |-> "", transport |-> 0,
   stage |-> "", saw |-> "", resp |-> NoResponse]

Suspend(req) == inflight (+) SetToBag({req})
Resume(req) == inflight (-) SetToBag({req})
Suspended == BagToSet(inflight)
CanSuspend == BagCardinality(inflight) < MaxInflight

Remove(table, sid) == [s \in DOMAIN table \ {sid} |-> table[s]]

Put_KeepFirst(table, sid, entry) ==
  [s \in DOMAIN table \cup {sid} |->
     IF s \in DOMAIN table THEN table[s] ELSE entry]
Put(table, sid, entry) ==
  [s \in DOMAIN table \cup {sid} |-> IF s = sid THEN entry ELSE table[s]]

Bump(f, s) == [f EXCEPT ![s] = @ + 1]

----------------------------------------------------------------------------
\* The registry of the server and the JSON-RPC replies of its request
\* handlers (core/fastmcp.ts).

ToolNames == {"add", "echo"}
ResourceUris == {"config://app"}
PromptNames == {"greet"}
Handlers == ToolNames \cup ResourceUris \cup PromptNames

\* The arguments object of a tools/call: the type of each of its properties.
Fields == {"a", "b"}
ValueTypes == {"number", "string", "undefined"}
EmptyObject == [f \in Fields |-> "undefined"]
Arguments ==
  { [a |-> "number", b |-> "number"],
    [a |-> "string", b |-> "number"],
    [a |-> "string", b |-> "undefined"],
    EmptyObject }

\* The zod input schemas the tools are registered with: the types each
\* property may have.  add is z.object({a: z.number(), b: z.number()}), echo
\* is z.object({a: z.string()}), which ignores b.
InputSchemas ==
  [add |-> [a |-> {"number"}, b |-> {"number"}],
   echo |-> [a |-> {"string"}, b |-> ValueTypes]]

\* Where a zod schema is expected and there is none (undefined).
NoSchema == [f \in Fields |-> {}]

\* The schema argument of registerTool: an object with a description and an
\* input schema, or no object at all.
ToolSchema(description, inputSchema) ==
  [typeof |-> "object", description |-> description,
   inputSchema |-> inputSchema]
Undefined ==
  [typeof |-> "undefined", description |-> "", inputSchema |-> NoSchema]

\* What registerTool is called with: name, handler and schema.  add is
\* registered with its own function, with the function of echo, and with a
\* schema object that has a description only; the last four calls have an
\* empty name, a name with a forbidden character, a handler that is no
\* function (null, written "") and no schema object.
RegisterToolCalls ==
  { <<"add", "add", ToolSchema("adds", InputSchemas.add)>>,
    <<"add", "echo", ToolSchema("echoes", InputSchemas.echo)>>,
    <<"echo", "echo", ToolSchema("echoes", InputSchemas.echo)>>,
    <<"add", "add", ToolSchema("adds", NoSchema)>>,
    <<"", "add", ToolSchema("adds", InputSchemas.add)>>,
    <<"add?", "add", ToolSchema("adds", InputSchemas.add)>>,
    <<"add", "", ToolSchema("adds", InputSchemas.add)>>,
    <<"add", "add", Undefined>> }

\* The options registerResource and registerPrompt are called with.
ResourceOptions ==
  { [name |-> "config", description |-> "first", mimeType |-> "text/plain"],
    [name |-> "config", description |-> "second",
     mimeType |-> "application/json"] }
PromptOptions ==
  { [description |-> "first", arguments |-> NoSchema],
    [description |-> "second", arguments |-> InputSchemas.echo] }

\* No request handler of the server has answered in the latest step.
NoReply ==
  [method |-> "", name |-> "", cause |-> "", arguments |-> EmptyObject,
   items |-> {}, context |-> << >>,
   response |-> [kind |-> "none", isError |-> FALSE, code |-> 0,
                 message |-> <<"", "">>]]

\* No registration method was called in the latest step.
NoRegistration ==
  [kind |-> "", key |-> "", handler |-> "", metadata |-> Undefined,
   threw |-> FALSE]

----------------------------------------------------------------------------
\* The event streams of the sessions.

\* The stream of a session carries the session's id.
StreamIds == SessionIds
Messages == {"notification"}

\* No GET stream was opened.
NoStream ==
  [stream |-> 0, lastEventId |-> 0, held |-> 0, replayed |-> 0,
   sent |-> << >>, open |-> FALSE]

----------------------------------------------------------------------------
\* The signals the base HTTP server listens to (transport/httpServer.ts).
Signals == {"SIGINT", "SIGTERM"}

----------------------------------------------------------------------------
\* The transport types of the options of a FastMCP instance
\* (core/fastmcp.ts, run).
TransportTypes == {"stdio", "streamable", "sse"}
\* No call of run() or stop() has just ended.
NoCall == [call |-> "", outcome |-> ""]
\* No function was wrapped with the tool decorator of an instance.
NoDecoration == [instance |-> 0, name |-> "", fn |-> ""]

----------------------------------------------------------------------------
Init ==
  /\ activeTransports = << >>
  /\ transports = << >>
  /\ serverTransport = 0
  /\ onclosePending = [t \in TransportIds |-> FALSE]
  /\ inflight = EmptyBag
  /\ last = NoRequest
  /\ issued = << >>
  /\ teardowns = [s \in SessionIds |-> 0]
  /\ removed = [s \in SessionIds |-> 0]
  /\ marked = {}
  /\ swept = NoSweep
  /\ registry = [tools |-> << >>, resources |-> << >>, prompts |-> << >>]
  /\ invoked = [h \in Handlers |-> 0]
  /\ reply = NoReply
  /\ registration = NoRegistration
  /\ eventStore = [streamId \in StreamIds |-> << >>]
  /\ sse = NoStream
  /\ signalHandlersSetup = FALSE
  /\ signalCleanupHandlers = << >>
  /\ listeners = [sig \in Signals |-> {}]
  /\ httpServers = << >>
  /\ closeCallbacks = {}
  /\ delivered = << >>
  /\ exited = FALSE
  /\ transportOptions = ""
  /\ isRunning = FALSE
  /\ shutdownPromise = "undefined"
  /\ pendingRuns = << >>
  /\ waiters = 0
  /\ started = [calls |-> 0, connects |-> 0, listeners |-> 0, handlers |-> 0,
                listening |-> 0]
  /\ closes = 0
  /\ sequential = TRUE
  /\ completed = NoCall
  /\ instances = << >>
  /\ globalFastMCPInstance = 0
  /\ decorated = NoDecoration

----------------------------------------------------------------------------
\* Collaborators.

isInitializeRequest(body) == body = "initialize"

\* getBody(req) (./getBody.js): reads the request body to its end and resolves
\* with the parsed JSON-RPC message.
getBody(req) == req.body

\* A generator that can yield an id again (a counter reset, a constant).
randomUUID_Reused(used) == {1}

\* sessionIdGenerator: randomUUID.  A version 4 UUID carries 122 random bits;
\* the generator is modelled as yielding an id not generated before (ids are
\* opaque, so the lowest unused one stands for any).
randomUUID(used) ==
  LET fresh == SessionIds \ {used[i] : i \in 1..Len(used)} IN
  {sid \in fresh : \A other \in fresh : sid <= other}

\* server.connect(transport): the server sends and receives through transport.
ServerConnect(t) == t

\* server.close(): the server is connected to no transport afterwards.
ServerClose == 0

----------------------------------------------------------------------------
\* POST <endpoint>

\* Branch 2 taken for every request without a session id, initialize or not.
PostRoute_AnyBody(sessionId, body, table) ==
  IF sessionId # NoHeader /\ sessionId \in DOMAIN table THEN "existing"
  ELSE IF sessionId = NoHeader THEN "create"
  ELSE "reject"

\* Branch 2 taken for every initialize request, whatever its session id.
PostRoute_AnyHeader(sessionId, body, table) ==
  IF sessionId # NoHeader /\ sessionId \in DOMAIN table THEN "existing"
  ELSE IF isInitializeRequest(body) THEN "create"
  ELSE "reject"

\* The three branches of the POST handler.
PostRoute(sessionId, body, table) ==
  IF sessionId # NoHeader /\ sessionId \in DOMAIN table THEN "existing"
  ELSE IF sessionId = NoHeader /\ isInitializeRequest(body) THEN "create"
  ELSE "reject"

\* Initialize requests that are waiting for their body.
PendingCreates ==
  CopiesIn(Request("POST", NoHeader, "initialize", "getBody", 0), inflight)

\* The handler starts and suspends at `await getBody(req)`.
PostArrive(sessionId, body) ==
  /\ CanSuspend
  /\ (sessionId = NoHeader /\ isInitializeRequest(body))
       => Len(transports) + PendingCreates < MaxTransports
  /\ inflight' = Suspend(Request("POST", sessionId, body, "getBody", 0))
  /\ last' = NoRequest
  /\ UNCHANGED <<activeTransports, transports, serverTransport, onclosePending,
                 issued, teardowns, removed, marked>>

\* The entry stored with a transport shared by all requests, not the one
\* created for this initialize.
onsessioninitialized_SharedTransport(table, sid, t) ==
  Put(table, sid, [server |-> McpServer, transport |-> 1, isClosing |-> FALSE])

\* onsessioninitialized: the entry is stored under the generated id.
onsessioninitialized(table, sid, t) ==
  Put(table, sid, [server |-> McpServer, transport |-> t, isClosing |-> FALSE])

\* Branch 1: the session id is a key of the table; the request is handed to
\* the entry's transport (the await after the if).  `server` is reassigned to
\* the entry's server, which is the one McpServer.
PostExisting(req) ==
  LET fwd == [req EXCEPT !.pc = "handleRequest",
                         !.transport = activeTransports[req.sessionId].transport]
  IN
  /\ req.pc = "getBody"
  /\ PostRoute(req.sessionId, getBody(req), activeTransports) = "existing"
  /\ inflight' = Resume(req) (+) SetToBag({fwd})
  /\ last' = Routed(fwd, Forwarded)
  /\ UNCHANGED <<activeTransports, transports, serverTransport, onclosePending,
                 issued, teardowns, removed, marked>>

\* Branch 2: a transport is created, the server is connected to it and the
\* initialize request is handed to it (the await inside the branch).  The SDK
\* transport either accepts the request (it generates the session id and
\* calls onsessioninitialized before its first await) or rejects it (wrong
\* Accept or Content-Type) without generating an id.
PostCreate(req) ==
  LET t == Len(transports) + 1
      fwd == [req EXCEPT !.pc = "handleInitialize", !.transport = t]
  IN
  /\ req.pc = "getBody"
  /\ PostRoute(req.sessionId, getBody(req), activeTransports) = "create"
  /\ Len(transports) < MaxTransports
  /\ serverTransport' = ServerConnect(t)
  /\ \/ \E sid \in randomUUID(issued) :
          /\ transports' = Append(transports, [sessionId |-> sid])
          /\ activeTransports' = onsessioninitialized(activeTransports, sid, t)
          /\ issued' = Append(issued, sid)
     \/ /\ transports' = Append(transports, [sessionId |-> NoHeader])
        /\ UNCHANGED <<activeTransports, issued>>
  /\ inflight' = Resume(req) (+) SetToBag({fwd})
  /\ last' = Routed(fwd, Forwarded)
  /\ UNCHANGED <<onclosePending, teardowns, removed, marked>>

\* Branch 3: no usable session and no initialize request.
PostReject(req) ==
  /\ req.pc = "getBody"
  /\ PostRoute(req.sessionId, getBody(req), activeTransports) = "reject"
  /\ inflight' = Resume(req)
  /\ last' = Routed(req, BadRequest)
  /\ UNCHANGED <<activeTransports, transports, serverTransport, onclosePending,
                 issued, teardowns, removed, marked>>

\* `await transport.handleRequest(req, res, body)` resolves, or rejects into
\* the catch of the POST branch.
PostTransportReturn(req) ==
  /\ req.method = "POST"
  /\ req.pc \in {"handleRequest", "handleInitialize"}
  /\ inflight' = Resume(req)
  /\ \/ last' = Returned(req, req.pc, TransportResponse)
     \/ last' = Returned(req, req.pc, InternalError)
  /\ UNCHANGED <<activeTransports, transports, serverTransport, onclosePending,
                 issued, teardowns, removed, marked>>

----------------------------------------------------------------------------
\* GET <endpoint>

GetRoute(sessionId, table) ==
  IF sessionId = NoHeader THEN "nosession"
  ELSE IF sessionId \notin DOMAIN table THEN "notransport"
  ELSE "forward"

GetRejection_Swapped(route) ==
  IF route = "nosession" THEN NoActiveTransport ELSE NoSessionId
GetRejection(route) ==
  IF route = "nosession" THEN NoSessionId ELSE NoActiveTransport

GetReject(sessionId) ==
  /\ GetRoute(sessionId, activeTransports) # "forward"
  /\ last' = Routed(Request("GET", sessionId, "", "", 0),
                    GetRejection(GetRoute(sessionId, activeTransports)))
  /\ UNCHANGED <<activeTransports, transports, serverTransport, onclosePending,
                 inflight, issued, teardowns, removed, marked>>

GetForward(sessionId) ==
  LET fwd == Request("GET", sessionId, "", "handleRequest",
                     activeTransports[sessionId].transport)
  IN
  /\ CanSuspend
  /\ GetRoute(sessionId, activeTransports) = "forward"
  /\ inflight' = Suspend(fwd)
  /\ last' = Routed(fwd, Forwarded)
  /\ UNCHANGED <<activeTransports, transports, serverTransport, onclosePending,
                 issued, teardowns, removed, marked>>

\* The GET branch has no try: a rejection leaves handleRequest and is answered
\* by the base HTTP server.
GetTransportReturn(req) ==
  /\ req.method = "GET"
  /\ req.pc = "handleRequest"
  /\ inflight' = Resume(req)
  /\ \/ last' = Returned(req, req.pc, TransportResponse)
     \/ last' = Returned(req, req.pc, BaseServerError)
  /\ UNCHANGED <<activeTransports, transports, serverTransport, onclosePending,
                 issued, teardowns, removed, marked>>

----------------------------------------------------------------------------
\* DELETE <endpoint>

DeleteRoute(sessionId, table) ==
  IF sessionId = NoHeader THEN "nosession"
  ELSE IF sessionId \notin DOMAIN table THEN "notransport"
  ELSE "found"

\* `if (!activeTransport.isClosing)`: the guard of the DELETE teardown.
DeleteGuard(entry) == ~entry.isClosing

\* The close callback without the isClosing test.
OncloseGuard_NoFlag(sid, table) ==
  /\ sid # NoHeader
  /\ sid \in DOMAIN table

\* The guard of the teardown in transport.onclose.
OncloseGuard(sid, table) ==
  /\ sid # NoHeader
  /\ sid \in DOMAIN table
  /\ ~table[sid].isClosing

\* The delete placed in the try after the await, not in a finally.
AfterClose_InTry(table, sid, closed) ==
  IF closed THEN Remove(table, sid) ELSE table

\* `finally { delete activeTransports[sid] }` after the awaited server.close(),
\* whether it resolved (closed = TRUE) or rejected.
AfterClose(table, sid, closed) == Remove(table, sid)

\* The two 400 messages of DELETE swapped.
DeleteRejection_Swapped(route) ==
  IF route = "nosession" THEN NoActiveTransport ELSE InvalidSessionId

DeleteRejection(route) ==
  IF route = "nosession" THEN InvalidSessionId ELSE NoActiveTransport

DeleteReject(sessionId) ==
  /\ DeleteRoute(sessionId, activeTransports) # "found"
  /\ last' = Routed(Request("DELETE", sessionId, "", "", 0),
                    DeleteRejection(DeleteRoute(sessionId, activeTransports)))
  /\ UNCHANGED <<activeTransports, transports, serverTransport, onclosePending,
                 inflight, issued, teardowns, removed, marked>>

\* The entry is found with isClosing set: the handler skips the if and returns
\* without writing to res.
DeleteClosing(sessionId) ==
  /\ DeleteRoute(sessionId, activeTransports) = "found"
  /\ ~DeleteGuard(activeTransports[sessionId])
  /\ last' = Routed(Request("DELETE", sessionId, "", "",
                            activeTransports[sessionId].transport),
                    NoResponse)
  /\ UNCHANGED <<activeTransports, transports, serverTransport, onclosePending,
                 inflight, issued, teardowns, removed, marked>>

\* The entry is found and passes the guard: isClosing is set in the same turn
\* and the handler suspends at `await activeTransport.transport.handleRequest`.
DeleteStart(sessionId) ==
  LET fwd == Request("DELETE", sessionId, "", "handleRequest",
                     activeTransports[sessionId].transport)
  IN
  /\ CanSuspend
  /\ DeleteRoute(sessionId, activeTransports) = "found"
  /\ DeleteGuard(activeTransports[sessionId])
  /\ activeTransports' = [activeTransports EXCEPT ![sessionId].isClosing = TRUE]
  /\ marked' = marked \cup {sessionId}
  /\ inflight' = Suspend(fwd)
  /\ last' = Routed(fwd, Forwarded)
  /\ UNCHANGED <<transports, serverTransport, onclosePending, issued,
                 teardowns, removed>>

\* The transport handled the DELETE: server.close() is called and awaited.
\* Or the transport rejected: the outer catch answers 500 and nothing is
\* cleaned up.
DeleteTransportReturn(req) ==
  /\ req.method = "DELETE"
  /\ req.pc = "handleRequest"
  /\ \/ /\ serverTransport' = ServerClose
        /\ teardowns' = Bump(teardowns, req.sessionId)
        /\ inflight' = Resume(req) (+) SetToBag({[req EXCEPT !.pc = "serverClose"]})
        /\ last' = NoRequest
     \/ /\ inflight' = Resume(req)
        /\ last' = Returned(req, req.pc, DeleteError)
        /\ UNCHANGED <<serverTransport, teardowns>>
  /\ UNCHANGED <<activeTransports, transports, onclosePending, issued, removed,
                 marked>>

\* `await activeTransport.server?.close()` resolved or rejected; the rejection
\* is logged, and the finally deletes the entry.
DeleteServerCloseReturn(req) ==
  /\ req.method = "DELETE"
  /\ req.pc = "serverClose"
  /\ \E closed \in BOOLEAN :
       /\ activeTransports' = AfterClose(activeTransports, req.sessionId, closed)
       /\ last' = Returned(req, IF closed THEN "closed" ELSE "closeFailed",
                           TransportResponse)
  /\ removed' = IF req.sessionId \in DOMAIN activeTransports
                  /\ req.sessionId \notin DOMAIN activeTransports'
                THEN Bump(removed, req.sessionId) ELSE removed
  /\ inflight' = Resume(req)
  /\ UNCHANGED <<transports, serverTransport, onclosePending, issued, teardowns,
                 marked>>

----------------------------------------------------------------------------
\* transport.onclose

\* The close callback of transport t runs.  When the guard passes, isClosing
\* is set in the same turn, server.close() is called, and the handler
\* suspends at the await.  When it does not, the callback does nothing.
TransportClose(t) ==
  LET sid == transports[t].sessionId IN
  /\ t \in 1..Len(transports)
  /\ OncloseGuard(sid, activeTransports)
  /\ activeTransports' = [activeTransports EXCEPT ![sid].isClosing = TRUE]
  /\ serverTransport' = ServerClose
  /\ teardowns' = Bump(teardowns, sid)
  /\ onclosePending' = [onclosePending EXCEPT ![t] = TRUE]
  /\ marked' = marked \cup {sid}
  /\ last' = NoRequest
  /\ UNCHANGED <<transports, inflight, issued, removed>>

\* `await server?.close()` resolved or rejected; the rejection is logged, and
\* the finally deletes the entry.
OncloseReturn(t) ==
  LET sid == transports[t].sessionId IN
  /\ t \in 1..Len(transports)
  /\ onclosePending[t]
  /\ \E closed \in BOOLEAN :
       activeTransports' = AfterClose(activeTransports, sid, closed)
  /\ removed' = IF sid \in DOMAIN activeTransports
                  /\ sid \notin DOMAIN activeTransports'
                THEN Bump(removed, sid) ELSE removed
  /\ onclosePending' = [onclosePending EXCEPT ![t] = FALSE]
  /\ last' = NoRequest
  /\ UNCHANGED <<transports, serverTransport, inflight, issued, teardowns,
                 marked>>

----------------------------------------------------------------------------
\* The process-wide cleanup hook.

\* What transport.close() followed by server.close() does for one session:
\* both return, transport.close() throws, or server.close() throws.
CloseOutcomes == {"closed", "transportThrew", "serverThrew"}

\* The entries the loop finds with isClosing unset.
CleanupPending(table) == {sid \in DOMAIN table : ~table[sid].isClosing}

\* The body of the try for one session: isClosing is set first, then
\* transport.close() is called, then server.close(); a throw skips what
\* follows it and is logged by the catch.
CleanupSession(how) ==
  [isClosing |-> TRUE,
   transportClose |-> TRUE,
   transportClosed |-> how # "transportThrew",
   serverClose |-> how # "transportThrew",
   serverClosed |-> how = "closed",
   logged |-> how # "closed",
   thrown |-> FALSE]

\* The sessions whose loop body ran.  Were the try around the whole loop,
\* the first throw would end the loop.
CleanupProcessed_TryAroundLoop(pending, how) ==
  {sid \in pending : \A f \in pending : how[f] # "closed" => sid <= f}

\* The try is inside the loop body: the catch logs and the loop goes on to
\* the next entry.
CleanupProcessed(pending, how) == pending

\* Every entry that is not closing is marked closing; its transport and the
\* server are closed without awaiting.  transport.close() runs the close
\* callback, which finds isClosing set.
cleanup ==
  LET pending == CleanupPending(activeTransports) IN
  /\ pending # {}
  /\ \E how \in [pending -> CloseOutcomes] :
       LET done == CleanupProcessed(pending, how) IN
       /\ activeTransports' =
            [sid \in DOMAIN activeTransports |->
               IF sid \in done
               THEN [activeTransports[sid] EXCEPT
                       !.isClosing = CleanupSession(how[sid]).isClosing]
               ELSE activeTransports[sid]]
       /\ serverTransport' =
            IF \E sid \in done : CleanupSession(how[sid]).serverClosed
            THEN ServerClose ELSE serverTransport
       /\ marked' = marked \cup done
       /\ swept' = [sid \in done |-> CleanupSession(how[sid])]
  /\ last' = NoRequest
  /\ UNCHANGED <<transports, onclosePending, inflight, issued, teardowns,
                 removed>>

----------------------------------------------------------------------------
\* The outcome a step left in `last` or in `swept` is observed before the
\* next step runs; observing it changes nothing else.
Observe ==
  /\ last # NoRequest \/ swept # NoSweep
  /\ last' = NoRequest
  /\ swept' = NoSweep
  /\ UNCHANGED <<activeTransports, transports, serverTransport, onclosePending,
                 inflight, issued, teardowns, removed, marked>>

Quiet == last = NoRequest /\ swept = NoSweep

Next ==
  \/ Quiet /\ (\E sessionId \in Headers, body \in Bodies : PostArrive(sessionId, body))
       /\ UNCHANGED <<swept, nonSessionVars>>
  \/ Quiet /\ (\E req \in Suspended : PostExisting(req))
       /\ UNCHANGED <<swept, nonSessionVars>>
  \/ Quiet /\ (\E req \in Suspended : PostCreate(req))
       /\ UNCHANGED <<swept, nonSessionVars>>
  \/ Quiet /\ (\E req \in Suspended : PostReject(req))
       /\ UNCHANGED <<swept, nonSessionVars>>
  \/ Quiet /\ (\E req \in Suspended : PostTransportReturn(req))
       /\ UNCHANGED <<swept, nonSessionVars>>
  \/ Quiet /\ (\E sessionId \in Headers : GetReject(sessionId))
       /\ UNCHANGED <<swept, nonSessionVars>>
  \/ Quiet /\ (\E sessionId \in Headers : GetForward(sessionId))
       /\ UNCHANGED <<swept, nonSessionVars>>
  \/ Quiet /\ (\E req \in Suspended : GetTransportReturn(req))
       /\ UNCHANGED <<swept, nonSessionVars>>
  \/ Quiet /\ (\E sessionId \in Headers : DeleteReject(sessionId))
       /\ UNCHANGED <<swept, nonSessionVars>>
  \/ Quiet /\ (\E sessionId \in Headers : DeleteClosing(sessionId))
       /\ UNCHANGED <<swept, nonSessionVars>>
  \/ Quiet /\ (\E sessionId \in Headers : DeleteStart(sessionId))
       /\ UNCHANGED <<swept, nonSessionVars>>
  \/ Quiet /\ (\E req \in Suspended : DeleteTransportReturn(req))
       /\ UNCHANGED <<swept, nonSessionVars>>
  \/ Quiet /\ (\E req \in Suspended : DeleteServerCloseReturn(req))
       /\ UNCHANGED <<swept, nonSessionVars>>
  \/ Quiet /\ (\E t \in TransportIds : TransportClose(t))
       /\ UNCHANGED <<swept, nonSessionVars>>
  \/ Quiet /\ (\E t \in TransportIds : OncloseReturn(t))
       /\ UNCHANGED <<swept, nonSessionVars>>
  \/ Quiet /\ cleanup /\ UNCHANGED nonSessionVars
  \/ Observe /\ UNCHANGED nonSessionVars

Spec == Init /\ [][Next]_vars

\* What the event loop does without a client: a handler suspended at an
\* await resumes once the call it awaits has returned or thrown ...
Resumption ==
  /\ Quiet
  /\ \E req \in Suspended :
       \/ PostExisting(req) \/ PostCreate(req) \/ PostReject(req)
       \/ PostTransportReturn(req) \/ GetTransportReturn(req)
       \/ DeleteTransportReturn(req) \/ DeleteServerCloseReturn(req)
  /\ UNCHANGED <<swept, nonSessionVars>>

\* ... and so does the onclose handler of transport t.
OncloseResumption(t) ==
  Quiet /\ OncloseReturn(t) /\ UNCHANGED <<swept, nonSessionVars>>

\* The behaviours in which the calls the handlers await do return and no
\* resumption is put off for ever, however many requests arrive, and in
\* which a response that was written is sent.
FairSpec ==
  /\ Spec
  /\ SF_vars(Resumption)
  /\ \A t \in TransportIds : SF_vars(OncloseResumption(t))
  /\ WF_vars(Observe /\ UNCHANGED nonSessionVars)

----------------------------------------------------------------------------
\* The request handlers of the server (core/fastmcp.ts, setupHandlers) and
\* the registration methods.

Reply(method, name, arguments, cause, response) ==
  [method |-> method, name |-> name, arguments |-> arguments,
   cause |-> cause, items |-> {}, context |-> << >>, response |-> response]

\* The protocol endpoint answers a request with what its handler resolves
\* with, as the result of a JSON-RPC success response ...
JsonRpcResult(content, isError) ==
  [kind |-> "result", isError |-> isError, code |-> 0, message |-> content]

\* ... and with a JSON-RPC error response carrying the message of what the
\* handler throws; an Error has no integer code, so the code is -32603.
JsonRpcError(error) ==
  [kind |-> "error", isError |-> FALSE, code |-> -32603, message |-> error]

ToolNotFound(name) == <<"Tool not found: ", name>>
ResourceNotFound(uri) == <<"Resource not found: ", uri>>
PromptNotFound(name) == <<"Prompt not found: ", name>>
\* What tool.schema.inputSchema.parse throws.
ZodError == <<"ZodError", "invalid_type">>
\* What reading a property of undefined throws.
TypeError == <<"TypeError", "undefined">>

\* tool.schema.inputSchema.parse(args): every property has a type its schema
\* allows.
ZodParse(schema, args) == \A f \in Fields : args[f] \in schema[f]

\* The JSON schema of a zod object schema: the properties the schema
\* declares, each with its type, all of them required.
zodToJsonSchema(schema) ==
  LET declared == {f \in Fields : schema[f] # ValueTypes} IN
  [type |-> "object",
   properties |-> {p \in declared \X ValueTypes : p[2] \in schema[p[1]]},
   required |-> declared]

\* What a registered handler does when it is invoked: it resolves with a
\* result, whose isError may be absent, or it throws or rejects.
HandlerOutcomes ==
  { [threw |-> FALSE, content |-> <<"ok", "">>, isError |-> "undefined"],
    [threw |-> FALSE, content |-> <<"failed", "">>, isError |-> "true"],
    [threw |-> TRUE, content |-> <<"boom", "">>, isError |-> "undefined"] }

\* result.isError || false
OrFalse(isError) == isError = "true"

ExecutionContext_Aborted == [cancel |-> [aborted |-> TRUE]]

\* The execution context a tool handler is called with.  Its cancel is the
\* signal of a controller created for this call and kept nowhere else, so
\* the signal is in the state it was created in; requestId and timestamp
\* are left out.
ExecutionContext == [cancel |-> [aborted |-> FALSE]]

CallToolRoute_HandlerFirst(tools, name, args) ==
  IF name \notin DOMAIN tools THEN "notfound" ELSE "handler"

\* The tool is looked up first; its arguments are parsed before its handler
\* is called.
CallToolRoute(tools, name, args) ==
  IF name \notin DOMAIN tools THEN "notfound"
  ELSE IF ~ZodParse(tools[name].schema.inputSchema, args) THEN "invalid"
  ELSE "handler"

\* What the catch of a handler does with the error: it logs it and throws it
\* again.
Rethrown(error) == JsonRpcError(error)

\* No request handler of the server runs, and no registration method is
\* called, before the outcome of the latest one was read.
Calm == reply = NoReply /\ registration = NoRegistration

\* ListToolsRequestSchema: converting the input schema of a tool that has
\* none throws.
ListTools ==
  LET tools == registry.tools IN
  /\ reply' =
       IF \E n \in DOMAIN tools : tools[n].schema.inputSchema = NoSchema
       THEN Reply("tools/list", "", EmptyObject, "threw",
                  JsonRpcError(TypeError))
       ELSE [Reply("tools/list", "", EmptyObject, "returned",
                   JsonRpcResult(<<"tools", "">>, FALSE))
               EXCEPT !.items =
                 { [name |-> tools[n].name,
                    description |-> tools[n].schema.description,
                    inputSchema |->
                      zodToJsonSchema(tools[n].schema.inputSchema)] :
                   n \in DOMAIN tools }]
  /\ UNCHANGED <<registry, invoked, registration, nonDispatcherVars>>

\* CallToolRequestSchema
CallTool(name, args) ==
  LET route == CallToolRoute(registry.tools, name, args) IN
  /\ \/ /\ route = "notfound"
        /\ reply' = Reply("tools/call", name, args, "notfound",
                          JsonRpcError(ToolNotFound(name)))
        /\ UNCHANGED invoked
     \/ /\ route = "invalid"
        /\ reply' = Reply("tools/call", name, args, "invalid",
                          Rethrown(IF registry.tools[name].schema.inputSchema
                                        = NoSchema
                                   THEN TypeError ELSE ZodError))
        /\ UNCHANGED invoked
     \/ /\ route = "handler"
        /\ invoked[registry.tools[name].handler] < MaxCalls
        /\ invoked' = Bump(invoked, registry.tools[name].handler)
        /\ \E out \in HandlerOutcomes :
             reply' =
               [(IF out.threw
                 THEN Reply("tools/call", name, args, "threw",
                            Rethrown(out.content))
                 ELSE Reply("tools/call", name, args, "returned",
                            JsonRpcResult(out.content, OrFalse(out.isError))))
                  EXCEPT !.context = <<ExecutionContext>>]
  /\ UNCHANGED <<registry, registration, nonDispatcherVars>>

\* ListResourcesRequestSchema
ListResources ==
  LET resources == registry.resources IN
  /\ reply' =
       [Reply("resources/list", "", EmptyObject, "returned",
              JsonRpcResult(<<"resources", "">>, FALSE))
          EXCEPT !.items =
            { [uri |-> resources[u].uri, name |-> resources[u].name,
               description |-> resources[u].description,
               mimeType |-> resources[u].mimeType] :
              u \in DOMAIN resources }]
  /\ UNCHANGED <<registry, invoked, registration, nonDispatcherVars>>

\* ReadResourceRequestSchema
ReadResource(uri) ==
  /\ IF uri \notin DOMAIN registry.resources
     THEN /\ reply' = Reply("resources/read", uri, EmptyObject, "notfound",
                            JsonRpcError(ResourceNotFound(uri)))
          /\ UNCHANGED invoked
     ELSE /\ invoked[registry.resources[uri].handler] < MaxCalls
          /\ invoked' = Bump(invoked, registry.resources[uri].handler)
          /\ \E out \in HandlerOutcomes :
               reply' =
                 IF out.threw
                 THEN Reply("resources/read", uri, EmptyObject, "threw",
                            Rethrown(out.content))
                 ELSE Reply("resources/read", uri, EmptyObject, "returned",
                            JsonRpcResult(out.content, FALSE))
  /\ UNCHANGED <<registry, registration, nonDispatcherVars>>

\* ListPromptsRequestSchema
ListPrompts ==
  LET prompts == registry.prompts IN
  /\ reply' =
       [Reply("prompts/list", "", EmptyObject, "returned",
              JsonRpcResult(<<"prompts", "">>, FALSE))
          EXCEPT !.items =
            { [name |-> prompts[n].name,
               description |-> prompts[n].description,
               arguments |-> prompts[n].arguments] :
              n \in DOMAIN prompts }]
  /\ UNCHANGED <<registry, invoked, registration, nonDispatcherVars>>

\* GetPromptRequestSchema: the arguments are not parsed, the handler is
\* called with them as they came.
GetPrompt(name, args) ==
  /\ IF name \notin DOMAIN registry.prompts
     THEN /\ reply' = Reply("prompts/get", name, args, "notfound",
                            JsonRpcError(PromptNotFound(name)))
          /\ UNCHANGED invoked
     ELSE /\ invoked[registry.prompts[name].handler] < MaxCalls
          /\ invoked' = Bump(invoked, registry.prompts[name].handler)
          /\ \E out \in HandlerOutcomes :
               reply' =
                 IF out.threw
                 THEN Reply("prompts/get", name, args, "threw",
                            Rethrown(out.content))
                 ELSE Reply("prompts/get", name, args, "returned",
                            JsonRpcResult(out.content, FALSE))
  /\ UNCHANGED <<registry, registration, nonDispatcherVars>>

\* utils/index.ts, validateName: of the names of the model, the empty one
\* and the one with a forbidden character make it throw.
validateName(name) == name \notin {"", "add?"}

\* typeof handler === 'function'
IsFunction(handler) == handler # ""

\* The checks of registerTool: a non-empty name that passes validateName, a
\* handler that is a function and a schema that is an object.
RegisterToolAccepts(name, handler, schema) ==
  /\ name # ""
  /\ validateName(name)
  /\ IsFunction(handler)
  /\ schema.typeof = "object"

registerTool(name, handler, schema) ==
  LET accepted == RegisterToolAccepts(name, handler, schema) IN
  /\ registration' =
       [kind |-> "tool", key |-> name, handler |-> handler,
        metadata |-> schema, threw |-> ~accepted]
  /\ registry' =
       IF accepted
       THEN [registry EXCEPT !.tools =
               Put(@, name, [name |-> name, handler |-> handler,
                             schema |-> schema])]
       ELSE registry
  /\ UNCHANGED <<invoked, reply, nonDispatcherVars>>

registerResource(uri, handler, options) ==
  LET accepted ==
        uri # "" /\ IsFunction(handler) /\ validateName(options.name) IN
  /\ registration' =
       [kind |-> "resource", key |-> uri, handler |-> handler,
        metadata |-> options, threw |-> ~accepted]
  /\ registry' =
       IF accepted
       THEN [registry EXCEPT !.resources =
               Put(@, uri, [uri |-> uri, handler |-> handler,
                            name |-> options.name,
                            description |-> options.description,
                            mimeType |-> options.mimeType])]
       ELSE registry
  /\ UNCHANGED <<invoked, reply, nonDispatcherVars>>

registerPrompt(name, handler, options) ==
  LET accepted == name # "" /\ validateName(name) /\ IsFunction(handler) IN
  /\ registration' =
       [kind |-> "prompt", key |-> name, handler |-> handler,
        metadata |-> options, threw |-> ~accepted]
  /\ registry' =
       IF accepted
       THEN [registry EXCEPT !.prompts =
               Put(@, name, [name |-> name, handler |-> handler,
                             description |-> options.description,
                             arguments |-> options.arguments])]
       ELSE registry
  /\ UNCHANGED <<invoked, reply, nonDispatcherVars>>

\* The outcome of the latest request or registration is read.
ObserveReply ==
  /\ ~Calm
  /\ reply' = NoReply
  /\ registration' = NoRegistration
  /\ UNCHANGED <<registry, invoked, nonDispatcherVars>>

NextDispatcher ==
  \/ Calm /\ \E call \in RegisterToolCalls :
               registerTool(call[1], call[2], call[3])
  \/ Calm /\ \E uri \in ResourceUris, options \in ResourceOptions :
               registerResource(uri, uri, options)
  \/ Calm /\ \E name \in PromptNames, options \in PromptOptions :
               registerPrompt(name, name, options)
  \/ Calm /\ ListTools
  \/ Calm /\ \E name \in ToolNames, args \in Arguments : CallTool(name, args)
  \/ Calm /\ ListResources
  \/ Calm /\ \E uri \in ResourceUris : ReadResource(uri)
  \/ Calm /\ ListPrompts
  \/ Calm /\ \E name \in PromptNames, args \in Arguments : GetPrompt(name, args)
  \/ ObserveReply

SpecDispatcher == Init /\ [][NextDispatcher]_vars

----------------------------------------------------------------------------
\* The event store (transport/InMemoryEventStore.js) and the event streams.
\* One store is made when the server starts and is handed to the transport
\* of every session.

NextEventId_Repeated(entries) == IF entries = << >> THEN 1 ELSE Len(entries)

\* The next sequence number of a stream.
NextEventId(entries) == Len(entries) + 1

\* append(streamId, message): stores the message under the next sequence
\* number of the stream.
append(store, streamId, message) ==
  [store EXCEPT ![streamId] =
     Append(@, [streamId |-> streamId, eventId |-> NextEventId(@),
                message |-> message])]

replayAfter_Inclusive(store, streamId, lastEventId) ==
  SelectSeq(store[streamId], LAMBDA e : e.eventId >= lastEventId)

\* replayAfter(streamId, lastEventId): in order, every stored message whose
\* eventId is greater than lastEventId.
replayAfter(store, streamId, lastEventId) ==
  SelectSeq(store[streamId], LAMBDA e : e.eventId > lastEventId)

\* The protocol endpoint of a session sends a message on the session's
\* stream: the transport appends it to the store and, while the GET stream
\* of the session is open, writes it to the stream.
Send(sid, message) ==
  /\ sid \in DOMAIN activeTransports
  /\ Len(eventStore[sid]) < MaxEvents
  /\ eventStore' = append(eventStore, sid, message)
  /\ sse' = IF sse.open /\ sse.stream = sid
            THEN [sse EXCEPT
                    !.sent = Append(@, eventStore'[sid][Len(eventStore'[sid])])]
            ELSE sse
  /\ UNCHANGED nonStoreVars

\* A GET with the id of a session of the table and the header last-event-id
\* is handed to the session's transport, which replays the stored events
\* after that id and then keeps the stream open.
Reconnect(sid, lastEventId) ==
  LET replay == replayAfter(eventStore, sid, lastEventId) IN
  /\ GetRoute(sid, activeTransports) = "forward"
  /\ lastEventId \in 0..Len(eventStore[sid])
  /\ sse' = [stream |-> sid, lastEventId |-> lastEventId,
             held |-> Len(eventStore[sid]), replayed |-> Len(replay),
             sent |-> replay, open |-> TRUE]
  /\ UNCHANGED <<eventStore, nonStoreVars>>

\* The client drops the GET stream.
Disconnect ==
  /\ sse.open
  /\ sse' = [sse EXCEPT !.open = FALSE]
  /\ UNCHANGED <<eventStore, nonStoreVars>>

NextStore ==
  \/ Quiet /\ inflight = EmptyBag /\ PostArrive(NoHeader, "initialize")
       /\ UNCHANGED <<swept, nonSessionVars>>
  \/ Quiet /\ (\E req \in Suspended : PostCreate(req))
       /\ UNCHANGED <<swept, nonSessionVars>>
  \/ Quiet /\ (\E req \in Suspended : PostTransportReturn(req))
       /\ UNCHANGED <<swept, nonSessionVars>>
  \/ Quiet /\ (\E t \in TransportIds : TransportClose(t))
       /\ UNCHANGED <<swept, nonSessionVars>>
  \/ Quiet /\ (\E t \in TransportIds : OncloseReturn(t))
       /\ UNCHANGED <<swept, nonSessionVars>>
  \/ Observe /\ UNCHANGED nonSessionVars
  \/ Quiet /\ \E sid \in SessionIds, message \in Messages : Send(sid, message)
  \/ Quiet /\ \E sid \in SessionIds, lastEventId \in 0..MaxEvents :
                Reconnect(sid, lastEventId)
  \/ Quiet /\ Disconnect

SpecStore == Init /\ [][NextStore]_vars

----------------------------------------------------------------------------
\* The base HTTP server and its signal handlers (transport/httpServer.ts).
\* The flag and the list of removeHandlers closures are module state, shared
\* by every server of the process.

\* The elements of a set of servers in the order they were created.
RECURSIVE Ascending(_)
Ascending(S) ==
  IF S = {} THEN << >>
  ELSE LET m == CHOOSE x \in S : \A y \in S : x <= y
       IN <<m>> \o Ascending(S \ {m})

\* removeHandlers of server s: when the flag is set, the cleanup closure of
\* s is removed from both signals and the flag is cleared.
removeHandlers(s, state) ==
  IF state.signalHandlersSetup
  THEN [signalHandlersSetup |-> FALSE,
        listeners |-> [sig \in Signals |-> state.listeners[sig] \ {s}]]
  ELSE state

\* signalCleanupHandlers.forEach(cleanup => cleanup())
RECURSIVE removeAll(_, _)
removeAll(handlers, state) ==
  IF handlers = << >> THEN state
  ELSE removeAll(Tail(handlers), removeHandlers(Head(handlers), state))

\* What the cleanup closure of server s does when a signal is delivered: it
\* calls the custom cleanup, then httpServer.close with the callback that
\* exits.
cleanupClosure(s) == << <<"customCleanup", s>>, <<"close", s>> >>

RECURSIVE EmitSignal(_)
EmitSignal(handlers) ==
  IF handlers = << >> THEN << >>
  ELSE cleanupClosure(Head(handlers)) \o EmitSignal(Tail(handlers))

\* createBaseHttpServer: the server listens, and setupCleanupHandlers
\* installs its cleanup closure on both signals unless the flag is set, sets
\* the flag and keeps its removeHandlers.  The session table is empty in
\* this specification, so the custom cleanup finds nothing to close.
createBaseHttpServer ==
  LET s == Len(httpServers) + 1 IN
  /\ ~exited
  /\ s <= MaxServers
  /\ httpServers' = Append(httpServers, "listening")
  /\ listeners' = IF ~signalHandlersSetup
                  THEN [sig \in Signals |-> listeners[sig] \cup {s}]
                  ELSE listeners
  /\ signalHandlersSetup' = TRUE
  /\ signalCleanupHandlers' = Append(signalCleanupHandlers, s)
  /\ UNCHANGED <<closeCallbacks, delivered, exited, nonHttpVars>>

\* httpServer.close() is called on a listening server by its owner.
HttpServerClose(s) ==
  /\ ~exited
  /\ s \in DOMAIN httpServers
  /\ httpServers[s] = "listening"
  /\ httpServers' = [httpServers EXCEPT ![s] = "closing"]
  /\ UNCHANGED <<signalHandlersSetup, signalCleanupHandlers, listeners,
                 closeCallbacks, delivered, exited, nonHttpVars>>

\* The server has closed: its 'close' event runs removeHandlers.
HttpServerClosed(s) ==
  LET after == removeHandlers(s, [signalHandlersSetup |-> signalHandlersSetup,
                                  listeners |-> listeners])
  IN
  /\ ~exited
  /\ s \in DOMAIN httpServers
  /\ httpServers[s] = "closing"
  /\ httpServers' = [httpServers EXCEPT ![s] = "closed"]
  /\ signalHandlersSetup' = after.signalHandlersSetup
  /\ listeners' = after.listeners
  /\ UNCHANGED <<signalCleanupHandlers, closeCallbacks, delivered, exited,
                 nonHttpVars>>

\* The callback given to httpServer.close by the cleanup closure runs once
\* the server has closed: process.exit(0).
CloseCallback(s) ==
  /\ ~exited
  /\ s \in closeCallbacks
  /\ httpServers[s] = "closed"
  /\ closeCallbacks' = closeCallbacks \ {s}
  /\ exited' = TRUE
  /\ UNCHANGED <<signalHandlersSetup, signalCleanupHandlers, listeners,
                 httpServers, delivered, nonHttpVars>>

\* A signal is delivered: every closure listening to it runs, in the order
\* of installation.
Signal(sig) ==
  LET handlers == Ascending(listeners[sig]) IN
  /\ ~exited
  /\ Len(delivered) < MaxSignals
  /\ delivered' = Append(delivered, EmitSignal(handlers))
  /\ httpServers' =
       [s \in DOMAIN httpServers |->
          IF s \in listeners[sig] /\ httpServers[s] = "listening"
          THEN "closing" ELSE httpServers[s]]
  /\ closeCallbacks' = closeCallbacks \cup listeners[sig]
  /\ UNCHANGED <<signalHandlersSetup, signalCleanupHandlers, listeners,
                 exited, nonHttpVars>>

cleanupAllSignalHandlers ==
  LET after == removeAll(signalCleanupHandlers,
                         [signalHandlersSetup |-> signalHandlersSetup,
                          listeners |-> listeners])
  IN
  /\ ~exited
  /\ signalCleanupHandlers # << >>
  /\ signalHandlersSetup' = after.signalHandlersSetup
  /\ listeners' = after.listeners
  /\ signalCleanupHandlers' = << >>
  /\ UNCHANGED <<httpServers, closeCallbacks, delivered, exited, nonHttpVars>>

NextHttpServer ==
  \/ createBaseHttpServer
  \/ \E s \in 1..MaxServers : HttpServerClose(s)
  \/ \E s \in 1..MaxServers : HttpServerClosed(s)
  \/ \E s \in 1..MaxServers : CloseCallback(s)
  \/ \E sig \in Signals : Signal(sig)
  \/ cleanupAllSignalHandlers

SpecHttpServer == Init /\ [][NextHttpServer]_vars

----------------------------------------------------------------------------
\* The lifecycle of a FastMCP instance (core/fastmcp.ts): the constructor,
\* run, stop, gracefulShutdown, performShutdown and isHealthy.

\* new FastMCP(options): options.transport.type is read by every run().
FastMCP(type) ==
  /\ transportOptions = ""
  /\ transportOptions' = type
  /\ UNCHANGED <<isRunning, shutdownPromise, pendingRuns, waiters, started,
                 closes, sequential, completed, nonLifecycleVars>>

\* this.isRunning && this.server !== null; the server is set by the
\* constructor and never cleared.
isHealthy == isRunning /\ transportOptions # ""

\* No run() or stop() is in flight and no shutdown is under way.
Settled ==
  /\ pendingRuns = << >>
  /\ waiters = 0
  /\ shutdownPromise \notin {"timer", "closing"}

\* What a call of run() or stop() ended with.
Completed(call, outcome) == [call |-> call, outcome |-> outcome]

AlreadyRunning_Unchecked == FALSE

\* if (this.isRunning) throw new Error('Server is already running')
AlreadyRunning == isRunning

\* run() up to its first await: it throws when the instance is running and
\* for the SSE transport, starts the HTTP listener of the Streamable
\* transport, and otherwise creates a stdio transport and connects the
\* server to it.
run ==
  /\ transportOptions # ""
  /\ started.calls < MaxRuns
  /\ sequential' = (sequential /\ Settled)
  /\ IF AlreadyRunning
     THEN /\ completed' = Completed("run", "Server is already running")
          /\ started' = [started EXCEPT !.calls = @ + 1]
          /\ UNCHANGED <<isRunning, pendingRuns>>
     ELSE IF transportOptions = "sse"
     THEN /\ completed' = Completed("run", "SSE transport is deprecated")
          /\ isRunning' = FALSE
          /\ started' = [started EXCEPT !.calls = @ + 1]
          /\ UNCHANGED pendingRuns
     ELSE /\ pendingRuns' = Append(pendingRuns, transportOptions)
          /\ started' =
               IF transportOptions = "streamable"
               THEN [started EXCEPT !.calls = @ + 1, !.listeners = @ + 1,
                                    !.listening = @ + 1]
               ELSE [started EXCEPT !.calls = @ + 1, !.connects = @ + 1]
          /\ UNCHANGED <<isRunning, completed>>
  /\ UNCHANGED <<transportOptions, shutdownPromise, waiters, closes,
                 nonLifecycleVars>>

\* run() after its await: the instance is running and a listener of each
\* signal is installed; when server.connect rejected, the catch clears
\* isRunning and throws.
runReturn(resolved) ==
  /\ pendingRuns # << >>
  /\ resolved \/ Head(pendingRuns) = "stdio"
  /\ pendingRuns' = Tail(pendingRuns)
  /\ IF resolved
     THEN /\ isRunning' = TRUE
          /\ started' = [started EXCEPT !.handlers = @ + 1]
          /\ completed' = Completed("run", "resolved")
     ELSE /\ isRunning' = FALSE
          /\ completed' = Completed("run", "rejected")
          /\ UNCHANGED started
  /\ UNCHANGED <<transportOptions, shutdownPromise, waiters, closes, sequential,
                 nonLifecycleVars>>

\* gracefulShutdown(): the promise of an earlier shutdown is returned when
\* there is one; otherwise performShutdown runs to its first await, the
\* timer of one second.
gracefulShutdown ==
  IF shutdownPromise # "undefined"
  THEN UNCHANGED <<isRunning, shutdownPromise>>
  ELSE /\ isRunning' = FALSE
       /\ shutdownPromise' = "timer"

\* stop(): the caller awaits the promise gracefulShutdown returns.
stop ==
  /\ transportOptions # ""
  /\ waiters < MaxStops
  /\ sequential' = (sequential /\ Settled)
  /\ gracefulShutdown
  /\ waiters' = waiters + 1
  /\ UNCHANGED <<transportOptions, pendingRuns, started, closes, completed,
                 nonLifecycleVars>>

\* A SIGINT or SIGTERM reaches the listeners the runs installed; each calls
\* gracefulShutdown().
ShutdownSignal ==
  /\ started.handlers > 0
  /\ shutdownPromise \in {"undefined", "timer", "closing"}
  /\ sequential' = FALSE
  /\ gracefulShutdown
  /\ UNCHANGED <<transportOptions, pendingRuns, waiters, started, closes, completed,
                 nonLifecycleVars>>

\* performShutdown after the timer: server.close() is called.
performShutdown ==
  /\ shutdownPromise = "timer"
  /\ shutdownPromise' = "closing"
  /\ closes' = closes + 1
  /\ UNCHANGED <<transportOptions, isRunning, pendingRuns, waiters, started,
                 sequential, completed, nonLifecycleVars>>

\* server.close() resolved or rejected: the shutdown promise settles.
ServerCloseReturn(resolved) ==
  /\ shutdownPromise = "closing"
  /\ shutdownPromise' = IF resolved THEN "fulfilled" ELSE "rejected"
  /\ UNCHANGED <<transportOptions, isRunning, pendingRuns, waiters, started, closes,
                 sequential, completed, nonLifecycleVars>>

\* A caller of stop() resumes when the promise it awaits has settled.
stopReturn ==
  /\ waiters > 0
  /\ shutdownPromise \in {"fulfilled", "rejected"}
  /\ waiters' = waiters - 1
  /\ completed' =
       Completed("stop", IF shutdownPromise = "fulfilled"
                         THEN "resolved" ELSE "rejected")
  /\ UNCHANGED <<transportOptions, isRunning, shutdownPromise, pendingRuns, started,
                 closes, sequential, nonLifecycleVars>>

\* The caller goes on after the call it made has ended.
ObserveCompleted ==
  /\ completed # NoCall
  /\ completed' = NoCall
  /\ UNCHANGED <<transportOptions, isRunning, shutdownPromise, pendingRuns, waiters,
                 started, closes, sequential, nonLifecycleVars>>

\* No call has just ended.
Idle == completed = NoCall

NextLifecycle ==
  \/ \E type \in TransportTypes : FastMCP(type)
  \/ Idle /\ run
  \/ Idle /\ \E resolved \in BOOLEAN : runReturn(resolved)
  \/ Idle /\ stop
  \/ Idle /\ ShutdownSignal
  \/ Idle /\ performShutdown
  \/ Idle /\ \E resolved \in BOOLEAN : ServerCloseReturn(resolved)
  \/ Idle /\ stopReturn
  \/ ObserveCompleted

SpecLifecycle == Init /\ [][NextLifecycle]_vars

----------------------------------------------------------------------------
\* Several FastMCP instances in one process and the function decorator
\* (core/fastmcp.ts, constructor and tool; decorators/index.ts).

\* new FastMCP(options): the instance gets an empty registry and becomes the
\* global instance of the function decorators.
setGlobalFastMCPInstance ==
  /\ Len(instances) < MaxInstances
  /\ instances' = Append(instances, << >>)
  /\ globalFastMCPInstance' = Len(instances) + 1
  /\ decorated' = NoDecoration
  /\ UNCHANGED nonInstanceVars

\* X.tool(options)(fn): the core decorator registers fn, under options.name
\* and with the schema made of the options, in the global instance when
\* there is one, whichever instance X is.
tool(X, name, fn) ==
  LET schema == ToolSchema(name, InputSchemas[name])
      target == globalFastMCPInstance IN
  /\ decorated' = [instance |-> X, name |-> name, fn |-> fn]
  /\ instances' =
       IF target # 0 /\ RegisterToolAccepts(name, fn, schema)
       THEN [instances EXCEPT ![target] =
               Put(@, name, [name |-> name, handler |-> fn,
                             schema |-> schema])]
       ELSE instances
  /\ UNCHANGED <<globalFastMCPInstance, nonInstanceVars>>

NextInstances ==
  \/ setGlobalFastMCPInstance
  \/ \E X \in DOMAIN instances, name \in ToolNames, fn \in ToolNames :
       tool(X, name, fn)

SpecInstances == Init /\ [][NextInstances]_vars

----------------------------------------------------------------------------
\* Shorthands of the properties.

\* The request req leaves the await it is suspended at in this step.
Resumed(req) == CopiesIn(req, inflight') < CopiesIn(req, inflight)

Transports == 1..Len(transports)
Known(sid) == sid \in DOMAIN activeTransports
Active(sid) == Known(sid) /\ ~activeTransports[sid].isClosing

\* The protocol endpoint of a session is the server of its entry; it is open
\* while it is connected to a transport.
EndpointOpen(sid) ==
  activeTransports[sid].server = McpServer /\ serverTransport # ServerClose

----------------------------------------------------------------------------
----------------------------------------------------------------------------
----------------------------------------------------------------------------
----------------------------------------------------------------------------
\* C4: a teardown of one session (by DELETE or by the close callback) closes
\* only that session's protocol endpoint: every other session that was in the
\* table and not closing stays there, not closing, with its endpoint open.
C4_TeardownIsolated ==
  [][\A sid \in SessionIds :
       teardowns'[sid] > teardowns[sid]
         => \A other \in SessionIds \ {sid} :
              (Active(other) /\ EndpointOpen(other))
                => /\ other \in DOMAIN activeTransports'
                   /\ ~activeTransports'[other].isClosing
                   /\ activeTransports'[other].server = McpServer
                   /\ serverTransport' # ServerClose]_vars

----------------------------------------------------------------------------
\* C5: a POST or GET with a session id whose entry is in the table with
\* isClosing set is answered as a bad request and not handed to the transport.
C5_ClosingRejected ==
  (last.method \in {"POST", "GET"} /\ last.stage = "route" /\ last.saw = "closing")
    => last.resp.status = 400 /\ last.resp # Forwarded

----------------------------------------------------------------------------
\* C6: a DELETE for a session id that is in the table with isClosing set is
\* answered with HTTP 400 and performs no teardown work.
C6_DeleteClosingAnswered ==
  (last.method = "DELETE" /\ last.stage = "route" /\ last.saw = "closing")
    => last.resp.status = 400

----------------------------------------------------------------------------
\* C7: when server.close() rejects during a teardown, on the DELETE path or in
\* the close callback, the error goes no further (the DELETE is not answered
\* 500 by the handler) and the entry is removed all the same: whenever the
\* await of server.close() returns, resolved or rejected, the entry is gone.
C7_RemovedDespiteCloseError ==
  [][/\ \A req \in Suspended :
          (req.method = "DELETE" /\ req.pc = "serverClose" /\ Resumed(req))
            => /\ req.sessionId \notin DOMAIN activeTransports'
               /\ last'.stage \in {"closed", "closeFailed"}
               /\ last'.resp = TransportResponse
     /\ \A t \in Transports :
          (onclosePending[t] /\ ~onclosePending'[t])
            => transports[t].sessionId \notin DOMAIN activeTransports']_vars

\* server.close() rejected in the teardown of a DELETE, and the entry is gone.
C7_Witness ==
  /\ last.method = "DELETE" /\ last.stage = "closeFailed"
  /\ last.resp = TransportResponse
  /\ ~Known(last.sessionId)
  /\ removed[last.sessionId] = 1

----------------------------------------------------------------------------
\* C8: every session created by an initialize POST gets an id different from
\* every id issued before it, the ids of torn-down sessions included, so an
\* initialize never overwrites or reuses a table entry: the issued ids are
\* pairwise different, every entry belongs to the transport that generated
\* its key, and the id of a removed entry is never a key again.
C8_DistinctSessionIds ==
  /\ \A i, j \in 1..Len(issued) : i # j => issued[i] # issued[j]
  /\ \A sid \in DOMAIN activeTransports :
       /\ activeTransports[sid].transport \in Transports
       /\ transports[activeTransports[sid].transport].sessionId = sid
  /\ \A t, u \in Transports :
       (t # u /\ transports[t].sessionId # NoHeader)
         => transports[t].sessionId # transports[u].sessionId
  /\ \A sid \in SessionIds : removed[sid] >= 1 => ~Known(sid)

\* A second session was created after the first was torn down.
C8_Witness ==
  /\ Len(issued) = 2
  /\ removed[issued[1]] = 1
  /\ Known(issued[2])

----------------------------------------------------------------------------
\* C9 as stated: when an initialize POST without a session header completes
\* (the transport accepted it and its handleRequest resolved), the session id
\* it generated is a key of the table and the entry is not closing.
C9_InitializeLeavesActiveSession ==
  ( /\ last.method = "POST" /\ last.stage = "handleInitialize"
    /\ last.resp = TransportResponse
    /\ transports[last.transport].sessionId # NoHeader )
    => Active(transports[last.transport].sessionId)

\* C9 as amended: a session whose initialize the transport accepted is a key
\* of the table, not closing, with the transport that handled the initialize,
\* from the step that creates it until a teardown trigger (DELETE, close
\* callback, cleanup hook) marks it; and every POST that is forwarded with a
\* session id goes to the transport that generated that id.
C9_ForwardedToInitializeTransport ==
  /\ \A t \in Transports :
       LET sid == transports[t].sessionId IN
       (sid # NoHeader /\ sid \notin marked)
         => /\ Active(sid)
            /\ activeTransports[sid].transport = t
  /\ ( /\ last.method = "POST" /\ last.stage = "route"
       /\ last.resp = Forwarded /\ last.sessionId # NoHeader )
       => /\ last.transport \in Transports
          /\ transports[last.transport].sessionId = last.sessionId
  /\ \A req \in Suspended :
       (req.method = "POST" /\ req.pc = "handleRequest")
         => /\ req.transport \in Transports
            /\ transports[req.transport].sessionId = req.sessionId

\* After the initialize of the second session completed, a POST with its id
\* is forwarded to the second transport.
C9_Witness ==
  /\ last.method = "POST" /\ last.stage = "route" /\ last.resp = Forwarded
  /\ last.saw = "active"
  /\ last.sessionId = 2 /\ last.transport = 2
  /\ \A req \in Suspended : req.pc # "handleInitialize"

----------------------------------------------------------------------------
\* C10: a DELETE for a session id whose teardown has completed (its entry was
\* deleted) is answered 400 "No active transport" and closes no protocol
\* endpoint and no transport.
C10_DeleteAfterTeardown ==
  [][( /\ last'.method = "DELETE" /\ last'.stage = "route"
       /\ last'.sessionId \in SessionIds
       /\ removed[last'.sessionId] >= 1 )
       => /\ last'.resp = NoActiveTransport
          /\ last'.resp.status = 400
          /\ UNCHANGED <<activeTransports, serverTransport, teardowns, removed,
                         onclosePending, inflight>>]_vars

\* The second DELETE of a session: the first one tore it down.
C10_Witness ==
  /\ last.method = "DELETE" /\ last.stage = "route"
  /\ last.sessionId \in SessionIds
  /\ removed[last.sessionId] = 1
  /\ last.resp = NoActiveTransport

----------------------------------------------------------------------------
\* C18: any exception thrown while handling a POST, a GET or a DELETE (a
\* rejection of transport.handleRequest, the call the three branches await)
\* is answered HTTP 500 with the JSON-RPC envelope of code -32603 and message
\* "Internal Server Error".
C18_ExceptionEnvelope ==
  ( /\ last.method \in {"POST", "GET", "DELETE"}
    /\ last.stage \in {"handleRequest", "handleInitialize"}
    /\ last.resp # TransportResponse )
    => /\ last.resp.status = 500
       /\ last.resp = InternalError

----------------------------------------------------------------------------
----------------------------------------------------------------------------
\* C20: when the cleanup hook runs, every session of the table that is not
\* already closing is marked closing and, unless one of its two close calls
\* throws, has its transport and its protocol endpoint closed; a throw while
\* closing one session is logged, not thrown out of the hook, and every other
\* session that was not closing is still processed.
C20_CleanupClosesAll ==
  [][swept' # NoSweep
       => /\ DOMAIN swept' =
               {sid \in DOMAIN activeTransports :
                  ~activeTransports[sid].isClosing}
          /\ \A sid \in DOMAIN swept' :
               /\ activeTransports'[sid].isClosing
               /\ sid \in marked'
               /\ swept'[sid].transportClose
               /\ ~swept'[sid].thrown
               /\ ~swept'[sid].logged
                    => /\ swept'[sid].transportClosed
                       /\ swept'[sid].serverClosed
                       /\ serverTransport' = ServerClose
          /\ \A sid \in DOMAIN activeTransports \ DOMAIN swept' :
               activeTransports'[sid] = activeTransports[sid]]_vars

\* cleanup ran over two sessions; closing the first one threw and the second
\* one was closed.
C20_Witness ==
  \E a, b \in DOMAIN swept :
    /\ a < b
    /\ swept[a].logged /\ ~swept[a].transportClosed
    /\ swept[b].transportClosed /\ swept[b].serverClosed
    /\ activeTransports[a].isClosing /\ activeTransports[b].isClosing

----------------------------------------------------------------------------
\* Shorthands of the dispatcher properties.

\* The arguments of the tools/call just answered fail the input schema the
\* tool is registered with.
InvalidArguments(r, tools) ==
  /\ r.method = "tools/call"
  /\ r.name \in DOMAIN tools
  /\ \E f \in Fields :
       r.arguments[f] \notin tools[r.name].schema.inputSchema[f]

\* The name, URI or prompt name of the request just answered is registered.
Registered(r, reg) ==
  \/ r.method = "tools/call" /\ r.name \in DOMAIN reg.tools
  \/ r.method = "resources/read" /\ r.name \in DOMAIN reg.resources
  \/ r.method = "prompts/get" /\ r.name \in DOMAIN reg.prompts

\* What tells one class of failure from another on the wire: whether the
\* response is a result or an error, the isError flag and the error code.
FailureClass(response) == <<response.kind, response.isError, response.code>>

----------------------------------------------------------------------------
\* C14: when the handler of a registered tool throws or rejects, the
\* tools/call is answered with a JSON-RPC success response whose result has
\* isError true and a text block describing the failure.
C14_HandlerThrowIsSoftError ==
  (reply.method = "tools/call" /\ reply.cause = "threw")
    => /\ reply.response.kind = "result"
       /\ reply.response.isError
       /\ reply.response.message = <<"boom", "">>

----------------------------------------------------------------------------
\* C15: when the arguments of a tools/call fail the registered input schema
\* of the tool, the answer is a result with isError true whose text carries
\* the validation message, not a JSON-RPC protocol error.
C15_InvalidArgumentsIsSoftError ==
  InvalidArguments(reply, registry.tools)
    => /\ reply.response.kind # "error"
       /\ reply.response.kind = "result"
       /\ reply.response.isError
       /\ reply.response.message = ZodError

----------------------------------------------------------------------------
\* C16: a tools/call whose arguments fail the registered input schema of the
\* tool invokes no handler: no invocation count changes in the step that
\* answers it.
C16_InvalidArgumentsNoHandler ==
  [][InvalidArguments(reply', registry.tools) => invoked' = invoked]_vars

\* add was invoked by an earlier valid call, and the call just answered had
\* arguments its schema rejects.
C16_Witness ==
  /\ reply.method = "tools/call" /\ reply.name = "add"
  /\ reply.arguments = [a |-> "string", b |-> "number"]
  /\ "add" \in DOMAIN registry.tools
  /\ invoked["add"] = 1

----------------------------------------------------------------------------
\* C17: calling a tool name, reading a resource URI or getting a prompt name
\* that is not in the registry is answered with a protocol-level error,
\* invokes no handler and leaves the registry unchanged; and that error is
\* of another class than the answer to a validation failure or to a handler
\* execution failure.
C17_NotFoundDistinguishable ==
  [][/\ (reply'.cause = "notfound" /\ ~Registered(reply', registry))
          => /\ reply'.response.kind = "error"
             /\ invoked' = invoked
             /\ registry' = registry
     /\ (Registered(reply', registry)
           /\ reply'.cause \in {"invalid", "threw"})
          => \A n \in Handlers :
               /\ FailureClass(reply'.response)
                    # FailureClass(JsonRpcError(ToolNotFound(n)))
               /\ FailureClass(reply'.response)
                    # FailureClass(JsonRpcError(ResourceNotFound(n)))
               /\ FailureClass(reply'.response)
                    # FailureClass(JsonRpcError(PromptNotFound(n)))]_vars

----------------------------------------------------------------------------
\* C11: a GET reconnect with last-event-id = k on a stream that holds the
\* events 1..N, 0 <= k <= N, is sent exactly the events k+1..N in ascending
\* order, each once, before any event appended after the reconnect, and the
\* later events follow in append order: what the stream was sent is at all
\* times the stored events k+1, k+2, ... without a gap, the first N-k of
\* them by the replay, and up to the newest event while the stream is open.
C11_ReplayAfter ==
  sse # NoStream
    => /\ sse.lastEventId \in 0..sse.held
       /\ sse.replayed = sse.held - sse.lastEventId
       /\ Len(sse.sent) >= sse.replayed
       /\ \A i \in 1..Len(sse.sent) :
            /\ sse.sent[i].eventId = sse.lastEventId + i
            /\ sse.sent[i] = eventStore[sse.stream][sse.lastEventId + i]
       /\ sse.open
            => Len(sse.sent) = Len(eventStore[sse.stream]) - sse.lastEventId

\* A reconnect with last-event-id 1 on a stream holding events 1..2 was sent
\* event 2, and nothing else, by the replay.
C11_Witness ==
  /\ sse.open /\ sse.lastEventId = 1 /\ sse.held = 2 /\ sse.replayed = 1
  /\ Len(sse.sent) = 1
  /\ sse.sent[1].eventId = 2
  /\ Len(eventStore[sse.stream]) = 2

----------------------------------------------------------------------------
\* C12: within one stream the event ids assigned by append are strictly
\* increasing in the order the appends arrive, also when appends to several
\* streams interleave, and a stored entry is never changed or removed while
\* its session is alive (in the table).
C12_AppendOrdered ==
  [][\A streamId \in StreamIds :
       /\ \A i, j \in 1..Len(eventStore'[streamId]) :
            i < j => eventStore'[streamId][i].eventId
                       < eventStore'[streamId][j].eventId
       /\ Len(eventStore'[streamId]) > Len(eventStore[streamId])
            => eventStore'[streamId][Len(eventStore'[streamId])].eventId
                 > Len(eventStore[streamId])
       /\ (streamId \in DOMAIN activeTransports
             /\ streamId \in DOMAIN activeTransports')
            => /\ Len(eventStore'[streamId]) >= Len(eventStore[streamId])
               /\ \A i \in 1..Len(eventStore[streamId]) :
                    eventStore'[streamId][i] = eventStore[streamId][i]]_vars

\* Appends to two streams interleaved: both streams hold two events.
C12_Witness ==
  /\ Len(eventStore[1]) = 2 /\ Len(eventStore[2]) = 2
  /\ 1 \in DOMAIN activeTransports /\ 2 \in DOMAIN activeTransports

----------------------------------------------------------------------------
\* C13: when a session is torn down (its table entry deleted), every entry of
\* the event store that belongs to the session's stream is deleted, and what
\* a session's stream is sent by a replay are entries of that session's
\* stream only.
C13_StoreDeletedOnTeardown ==
  /\ \A sid \in SessionIds :
       (removed[sid] >= 1 /\ sid \notin DOMAIN activeTransports)
         => eventStore[sid] = << >>
  /\ \A i \in 1..Len(sse.sent) :
       /\ sse.sent[i].streamId = sse.stream
       /\ \A other \in StreamIds \ {sse.stream} :
            \A j \in 1..Len(eventStore[other]) :
              sse.sent[i] # eventStore[other][j]

----------------------------------------------------------------------------
\* Shorthands of the signal handler properties.

\* The servers whose cleanup closure ran at some signal.
Signalled ==
  {s \in DOMAIN httpServers :
     \E d \in DOMAIN delivered :
       \E i \in DOMAIN delivered[d] : delivered[d][i] = <<"close", s>>}

----------------------------------------------------------------------------
\* C21: after any sequence of creating and closing base HTTP servers, at
\* most one SIGINT listener and at most one SIGTERM listener installed by
\* the base HTTP server are registered on the process.
C21_OneListenerPerSignal ==
  \A sig \in Signals : Cardinality(listeners[sig]) <= 1

----------------------------------------------------------------------------
\* C22: when SIGINT or SIGTERM is delivered, the installed handler first
\* runs the custom cleanup hook and then closes the listening socket of its
\* server, and the process exits only after that socket has closed.
C22_CleanupCloseExit ==
  /\ \A d \in DOMAIN delivered :
       \A i \in DOMAIN delivered[d] :
         delivered[d][i][1] = "close"
           => /\ i > 1
              /\ delivered[d][i - 1] = <<"customCleanup", delivered[d][i][2]>>
  /\ exited => \A s \in Signalled : httpServers[s] = "closed"

----------------------------------------------------------------------------
\* C23: registerTool fails and leaves the tools map as it was whenever its
\* name is empty or fails the name validation, its handler is not callable,
\* or its schema carries no input schema.
C23_RegisterToolPreconditions ==
  [][(/\ registration'.kind = "tool"
      /\ \/ registration'.key = ""
         \/ ~validateName(registration'.key)
         \/ ~IsFunction(registration'.handler)
         \/ registration'.metadata.inputSchema = NoSchema)
       => /\ registration'.threw
          /\ registry'.tools = registry.tools]_vars

----------------------------------------------------------------------------
\* C24: registering a tool, a resource or a prompt under a key that is
\* already present replaces the earlier entry without an error.  A
\* registration that is accepted leaves its map with one entry under its key,
\* made of the handler and the metadata it was called with, and with every
\* other entry as it was, and leaves the other two maps as they were;
\* nothing else changes the registry; and a lookup invokes the handler, and
\* a listing shows the description, that the map holds at that time.
C24_ReRegistrationOverwrites ==
  [][LET r == registration'
         Kept(old, new) ==
           /\ DOMAIN new = DOMAIN old \cup {r.key}
           /\ \A k \in DOMAIN old \ {r.key} : new[k] = old[k]
           /\ new[r.key].handler = r.handler
     IN
     /\ (r.kind = "tool" /\ RegisterToolAccepts(r.key, r.handler, r.metadata))
          => /\ ~r.threw
             /\ Kept(registry.tools, registry'.tools)
             /\ registry'.tools[r.key].name = r.key
             /\ registry'.tools[r.key].schema = r.metadata
             /\ registry'.resources = registry.resources
             /\ registry'.prompts = registry.prompts
     /\ r.kind = "resource"
          => /\ ~r.threw
             /\ Kept(registry.resources, registry'.resources)
             /\ registry'.resources[r.key].uri = r.key
             /\ registry'.resources[r.key].description
                  = r.metadata.description
             /\ registry'.tools = registry.tools
             /\ registry'.prompts = registry.prompts
     /\ r.kind = "prompt"
          => /\ ~r.threw
             /\ Kept(registry.prompts, registry'.prompts)
             /\ registry'.prompts[r.key].name = r.key
             /\ registry'.prompts[r.key].description = r.metadata.description
             /\ registry'.prompts[r.key].arguments = r.metadata.arguments
             /\ registry'.tools = registry.tools
             /\ registry'.resources = registry.resources
     /\ r.kind = "" => registry' = registry
     /\ (reply'.method = "tools/call"
           /\ reply'.cause \in {"returned", "threw"})
          => invoked' = Bump(invoked, registry.tools[reply'.name].handler)
     /\ (reply'.method = "tools/list" /\ reply'.cause = "returned")
          => \A n \in DOMAIN registry.tools :
               \E item \in reply'.items :
                 /\ item.name = n
                 /\ item.description = registry.tools[n].schema.description
     /\ reply'.method = "resources/list"
          => \A u \in DOMAIN registry.resources :
               \E item \in reply'.items :
                 /\ item.uri = u
                 /\ item.description = registry.resources[u].description
     /\ reply'.method = "prompts/list"
          => \A n \in DOMAIN registry.prompts :
               \E item \in reply'.items :
                 /\ item.name = n
                 /\ item.description = registry.prompts[n].description
    ]_vars

\* add was registered with its own function, which a call invoked, and has
\* just been registered again with the function and the schema of echo.
C24_Witness ==
  /\ registration.kind = "tool" /\ registration.key = "add"
  /\ registration.handler = "echo" /\ ~registration.threw
  /\ invoked["add"] = 1
  /\ registry.tools["add"].handler = "echo"
  /\ registry.tools["add"].schema.description = "echoes"

----------------------------------------------------------------------------
\* C25: a tools, resources or prompts list request is answered with a
\* result that has exactly one item for each entry registered at the time of
\* the call, carrying the name or URI, the description and the schema of the
\* entry and not its handler; the answer depends on the registry alone, not
\* on who asks.
C25_ListIsRegistrySnapshot ==
  [][/\ reply'.method = "tools/list"
          => /\ reply'.response.kind = "result"
             /\ Cardinality(reply'.items) = Cardinality(DOMAIN registry.tools)
             /\ \A n \in DOMAIN registry.tools :
                  [name |-> n,
                   description |-> registry.tools[n].schema.description,
                   inputSchema |->
                     zodToJsonSchema(registry.tools[n].schema.inputSchema)]
                    \in reply'.items
     /\ reply'.method = "resources/list"
          => /\ reply'.response.kind = "result"
             /\ Cardinality(reply'.items)
                  = Cardinality(DOMAIN registry.resources)
             /\ \A u \in DOMAIN registry.resources :
                  \E item \in reply'.items :
                    /\ item.uri = u
                    /\ item.name = registry.resources[u].name
                    /\ item.description = registry.resources[u].description
                    /\ "handler" \notin DOMAIN item
     /\ reply'.method = "prompts/list"
          => /\ reply'.response.kind = "result"
             /\ Cardinality(reply'.items)
                  = Cardinality(DOMAIN registry.prompts)
             /\ \A n \in DOMAIN registry.prompts :
                  \E item \in reply'.items :
                    /\ item.name = n
                    /\ item.description = registry.prompts[n].description
                    /\ item.arguments = registry.prompts[n].arguments
                    /\ "handler" \notin DOMAIN item
    ]_vars

----------------------------------------------------------------------------
\* C26: a prompts/get whose arguments fail the arguments schema the prompt
\* is registered with invokes no handler: no invocation count changes in
\* the step that answers it.
C26_PromptArgumentsValidated ==
  [][(/\ reply'.method = "prompts/get"
      /\ reply'.name \in DOMAIN registry.prompts
      /\ registry.prompts[reply'.name].arguments # NoSchema
      /\ ~ZodParse(registry.prompts[reply'.name].arguments,
                   reply'.arguments))
       => invoked' = invoked]_vars

----------------------------------------------------------------------------
\* C27: on one instance, when run() and stop() are called one after the
\* other, each after the call before it has ended, isHealthy() is true
\* after every run() that resolves and false after every stop() that
\* resolves.
C27_RunStopCycles ==
  sequential
    => /\ completed = Completed("run", "resolved") => isHealthy
       /\ completed = Completed("stop", "resolved") => ~isHealthy

----------------------------------------------------------------------------
\* C28: for every instance X, a function wrapped with X.tool(options)(fn)
\* is registered in the tools map of X itself under options.name, whatever
\* other instances were constructed before or after X.
C28_DecoratorRegistersInOwnInstance ==
  decorated # NoDecoration
    => /\ decorated.name \in DOMAIN instances[decorated.instance]
       /\ instances[decorated.instance][decorated.name].handler
            = decorated.fn

----------------------------------------------------------------------------
\* C29: every session whose isClosing flag is set, by a DELETE, by the close
\* callback of its transport or by the cleanup hook, is eventually removed
\* from the session table, also when the transport's handling of the DELETE
\* throws.
C29_ClosingEventuallyRemoved ==
  \A s \in SessionIds :
    (s \in DOMAIN activeTransports /\ activeTransports[s].isClosing)
      ~> (s \notin DOMAIN activeTransports)

----------------------------------------------------------------------------
\* C30: every request that reaches the handler is answered with one HTTP
\* response: whenever a run of the handler returns or hands the request to
\* the transport, a response was written to res or the transport is left to
\* write it; so is a DELETE that finds its session closing.
C30_EveryRequestAnswered ==
  last # NoRequest => last.resp # NoResponse

----------------------------------------------------------------------------
\* C31: creating a session never changes the transport the protocol endpoint
\* of an existing session is connected to: a session that is in the table,
\* not closing, with its endpoint connected to its own transport, is still
\* connected to it after a step that creates a transport.
C31_SessionKeepsItsTransport ==
  [][\A sid \in SessionIds :
       ( /\ Active(sid)
         /\ activeTransports[sid].server = McpServer
         /\ serverTransport = activeTransports[sid].transport
         /\ Len(transports') > Len(transports) )
         => serverTransport' = activeTransports[sid].transport]_vars

----------------------------------------------------------------------------
\* C32: when the handling of an initialize POST ends with the 500 response,
\* no entry created by that request is in the session table.
C32_FailedInitializeLeavesNoEntry ==
  ( /\ last.method = "POST" /\ last.stage = "handleInitialize"
    /\ last.resp = InternalError )
    => \A sid \in DOMAIN activeTransports :
         activeTransports[sid].transport # last.transport


\* C33: once stop() has completed on an instance started with the Streamable
\* transport, no HTTP listener opened by run() is still listening.
C33_StopClosesListener ==
  ( /\ completed = Completed("stop", "resolved")
    /\ transportOptions = "streamable" )
    => started.listening = 0


----------------------------------------------------------------------------
\* C34: when SIGINT or SIGTERM is delivered, the cleanup hook of every base
\* HTTP server that is listening runs and that server's listening socket is
\* closed, however many servers the process created.
C34_SignalClosesEveryListeningServer ==
  [][Len(delivered') > Len(delivered)
       => \A s \in DOMAIN httpServers :
            httpServers[s] = "listening"
              => /\ \E i \in DOMAIN delivered'[Len(delivered')] :
                      delivered'[Len(delivered')][i] = <<"customCleanup", s>>
                 /\ httpServers'[s] # "listening"]_vars

----------------------------------------------------------------------------
\* C35: when cleanupAllSignalHandlers returns, no SIGINT or SIGTERM listener
\* installed by the base HTTP server is registered, whatever servers were
\* created and closed before.
C35_CleanupAllRemovesEveryListener ==
  [][(signalCleanupHandlers # << >> /\ signalCleanupHandlers' = << >>)
       => \A sig \in Signals : listeners'[sig] = {}]_vars


----------------------------------------------------------------------------
----------------------------------------------------------------------------
\* C37: run() called on an instance that is running fails with 'Server is
\* already running', starts no transport and no listener, and leaves the
\* instance running and healthy.
C37_RunWhileRunningFails ==
  [][(isRunning /\ started'.calls > started.calls)
       => /\ completed' = Completed("run", "Server is already running")
          /\ started'.connects = started.connects
          /\ started'.listeners = started.listeners
          /\ started'.listening = started.listening
          /\ pendingRuns' = pendingRuns
          /\ isRunning'
          /\ isHealthy']_vars

\* run() has just failed on an instance that an earlier run() started.
C37_Witness ==
  /\ completed = Completed("run", "Server is already running")
  /\ isRunning
  /\ started.calls >= 2
  /\ started.connects + started.listeners = 1


----------------------------------------------------------------------------
\* C38: a stop() called on a running instance starts a shutdown or joins the
\* one that is under way, whose close of the protocol server is still to
\* come or to return, and a caller of stop() completes only when that
\* shutdown, which closed the server, has completed.
C38_OverlappingStopsShareOneShutdown ==
  [][ /\ (isRunning /\ waiters' > waiters)
           => shutdownPromise' \in {"timer", "closing"}
      /\ waiters' < waiters
           => /\ shutdownPromise \in {"fulfilled", "rejected"}
              /\ closes >= 1 ]_vars

====
